---- MODULE Spec2Model ----
(***************************************************************************)
(* The model handle of HARP (TorchModel / TorchWave2Wave) and its callers. *)
(*                                                                         *)
(* Two revisions of the handle are in the repository: the current one      *)
(* (Source/DeepLearning/TorchModel.cpp: model card, ChangeBroadcaster      *)
(* message, broadcastModelCardLoaded) and an older one (the editor's       *)
(* widget-creation callback, no card member).  `variant` selects the       *)
(* revision; it is fixed by Init and never changes.                        *)
(*                                                                         *)
(* Caller threads run load and process as sequences of steps; the steps    *)
(* between the std::lock_guard's construction and the function's exit run  *)
(* with m_mutex held.  ready() and the observers' reads of the card take   *)
(* no lock.  A C++ exception that no handler of the function matches       *)
(* leaves the function (the lock_guard's destructor releases the mutex)    *)
(* and is recorded in ret[t].result.  Every exit passes through the        *)
(* position "done", where the outcome is known and the lock_guard has not  *)
(* yet been destroyed; Return then releases the mutex and ends the call.   *)
(*                                                                         *)
(* Spec is the handle under concurrent load and process calls.             *)
(* ProcessSpec is process on a loaded handle with every parameter map      *)
(* (the marshalling of params).  CodecSpec is the buffer/tensor codec      *)
(* (to_tensor, to_buffer) on every small buffer.                           *)
(***************************************************************************)
EXTENDS Integers, Sequences, FiniteSets, TLC

VARIABLES
  variant,          \* "new": TorchModel.cpp, "old": the older revision
  m_model,          \* std::unique_ptr<Module>: Null or the graph it owns
  m_loaded,         \* bool m_loaded
  m_card,           \* ModelCard m_card ("new" only; the old revision has none)
  m_mutex,          \* std::mutex m_mutex: Free or the thread that holds it
  changeListeners,  \* juce::ChangeBroadcaster's listener list
  changePending,    \* the broadcaster's pending asynchronous update
  callbackSet,      \* editorsWidgetCreationCallback holds a target ("old")
  pc,               \* each caller thread's position
  arg,              \* the argument of the call a thread is in
  ret,              \* how a thread's last call ended
  pre,              \* handle state when the call acquired the mutex
  fired,            \* notifications the thread's current load has fired
  audience,         \* the change listeners registered when the load took the mutex
  used,             \* the graph reference the thread's process call read
  buf,              \* each thread's audio buffer (bufferToProcess)
  inbuf,            \* that buffer as it was when the call began
  entry,            \* how process was entered: directly or via AudioModification
  mIsModified,      \* AudioModification::mIsModified of the thread's modification
  lastEvent,        \* what the observers found when the latest notification reached them
  notified,         \* per change listener: callbacks received
  owed,             \* per listener: loads begun after it registered that returned true
  sent,             \* per change listener: sendChangeMessage calls since it registered
  loadSucceeded,    \* some load call has returned true
  calls,            \* calls started so far in the run
  procFailed,       \* some process call has ended in a failure and returned
  params,           \* process's params: key -> dynamically typed value (std::any)
  parameters,       \* c10::Dict<string, torch::Tensor> parameters of the call
  parameters2,      \* c10::Dict<string, IValue> parameters2 of the call
  handed,           \* the dictionary the call passed to forward
  input,            \* IValue input of the call: the tensor handed to resample
  output,           \* the tensor the call's forward pass returned
  mAudioBuffer,     \* AudioModification::mAudioBuffer: the thread whose call
                    \* allocated the buffer the modification owns, or "none"
  buffer,           \* to_tensor's argument (const juce::AudioBuffer<float> &buffer)
  tensor,           \* the tensor to_tensor returned, to_buffer's src_tensor
  dest_buffer,      \* to_buffer's destination buffer
  codecAt,          \* position of the codec run: "off", "encode", "decode", "done"
  crashed           \* the process faulted (null dereference)

vars == <<variant, m_model, m_loaded, m_card, m_mutex, changeListeners,
          changePending, callbackSet, pc, arg, ret, pre, fired, audience, used,
          buf, inbuf, entry, mIsModified, lastEvent, notified, owed, sent,
          loadSucceeded, calls, procFailed, params, parameters, parameters2,
          handed, input, output, mAudioBuffer, buffer, tensor, dest_buffer,
          codecAt, crashed>>

(***************************************************************************)
(* Bounds of the model.                                                    *)
(***************************************************************************)
MaxCalls == 2

\* The message (UI) thread, which also delivers the broadcaster's asynchronous
\* callbacks, and one other thread.  Either may call into the handle.
Threads == {"ui", "worker"}
Observers == {"o1"}
Variants == {"new", "old"}

Null == "nullptr"
Free == "free"
Unread == "unread"
MsgThread == "ui"

(***************************************************************************)
(* The serialized graphs a modelPath can name.  "g1" and "g2" are valid    *)
(* models with a complete model_card; "partial" deserializes but its       *)
(* model_card has no author attribute; "nocard" deserializes but has no    *)
(* model_card attribute; "missing" cannot be deserialized.                 *)
(***************************************************************************)
Graphs == {"g1", "g2", "partial", "nocard"}
Paths == Graphs \cup {"missing"}

\* load's argument: no "modelPath" key, a non-string value, or a path
LoadArgs == {"nokey", "notstring"} \cup Paths

EmptyCard == [name |-> "", description |-> "", author |-> "",
              sampleRate |-> 0, tags |-> <<>>]

\* what the graph's model_card attribute declares; "" / 0 is an absent attribute
Declared(g) ==
  CASE g = "g1" -> [name |-> "n1", description |-> "d1", author |-> "a1",
                    sampleRate |-> 22050, tags |-> <<"x">>]
    [] g = "g2" -> [name |-> "n2", description |-> "d2", author |-> "a2",
                    sampleRate |-> 44100, tags |-> <<"y">>]
    [] g = "partial" -> [name |-> "n3", description |-> "d3", author |-> "",
                         sampleRate |-> 0, tags |-> <<>>]
    [] OTHER -> EmptyCard

HasModelCard(g) == g \in {"g1", "g2", "partial"}
HasAttr(g, f) == HasModelCard(g) /\ Declared(g)[f] # EmptyCard[f]


\* every model_card attribute load reads is declared by the graph
Complete(g) == /\ HasModelCard(g)
               /\ \A f \in {"name", "description", "author", "sampleRate"} : HasAttr(g, f)

Deserializes(path) == path \in Graphs

(***************************************************************************)
(* Parameter maps (std::map<string, any>) and the dictionaries built from  *)
(* them.  A value is its dynamic type and its content; numbers of type     *)
(* float and double are counted in halves (n = 1 is 0.5), an int is n and  *)
(* a bool is 0 or 1.  "c_str" is a const char *, which is what a string    *)
(* literal put into a std::any holds: none of the types process tests for. *)
(***************************************************************************)
Val(type, n, str) == [type |-> type, n |-> n, str |-> str]

ParamValues == {Val("int", 3, ""), Val("float", 1, ""), Val("double", 1, ""),
                Val("bool", 1, ""), Val("bool", 0, ""),
                Val("string", 0, "fast"), Val("c_str", 0, "fast")}

\* the keys callers use, in std::map's iteration order
ParamKeys == <<"A", "gain">>

ParamMaps ==
  UNION {[K -> ParamValues] : K \in SUBSET {ParamKeys[i] : i \in DOMAIN ParamKeys}}

EmptyDict == <<>>

\* a 1-element double tensor holding h halves, and a string IValue
Tensor1(h) == [tag |-> "Tensor", data |-> <<h>>, str |-> ""]
StringValue(str) == [tag |-> "String", data |-> <<>>, str |-> str]

\* c10::Dict::insert: adds the pair unless the key is already there
Insert(d, k, v) ==
  [x \in DOMAIN d \cup {k} |-> IF x \in DOMAIN d THEN d[x] ELSE v]

\* static_cast<double>(std::any_cast<T>(value)), in halves
AsDouble(value) ==
  CASE value.type = "int" -> 2 * value.n
    [] value.type = "float" -> value.n
    [] value.type = "double" -> value.n
    [] value.type = "bool" -> 2 * value.n

\* one iteration of the loop over params: the if / else-if chain on the value's
\* type fills parameters2 and sets valueAsDouble (initialized to 0.0); after
\* it, whatever the type, parameters gets torch::tensor({valueAsDouble})
MarshalEntry(acc, key, value) ==
  LET numeric == value.type \in {"int", "float", "double", "bool"}
      valueAsDouble == IF numeric THEN AsDouble(value) ELSE 0
  IN [parameters |-> Insert(acc.parameters, key, Tensor1(valueAsDouble)),
      parameters2 |->
        IF numeric THEN Insert(acc.parameters2, key, Tensor1(valueAsDouble))
        ELSE IF value.type = "string"
          THEN Insert(acc.parameters2, key, StringValue(value.str))
          ELSE acc.parameters2]

RECURSIVE MarshalFrom(_, _, _)
MarshalFrom(acc, p, i) ==
  IF i > Len(ParamKeys) THEN acc
  ELSE MarshalFrom(IF ParamKeys[i] \in DOMAIN p
                     THEN MarshalEntry(acc, ParamKeys[i], p[ParamKeys[i]])
                     ELSE acc,
                   p, i + 1)

\* for (const auto& pair : params) { ... }
Marshal(p) == MarshalFrom([parameters |-> EmptyDict, parameters2 |-> EmptyDict], p, 1)

\* the params of the calls of Spec: none, or the key the older revision reads
ProcArgs == {EmptyDict, [k \in {"A"} |-> Val("double", 1, "")]}

NoForward == [called |-> FALSE, dict |-> EmptyDict]

(***************************************************************************)
(* The codec: TorchModel::to_tensor and TorchModel::to_buffer.  An audio   *)
(* buffer is its channel count, its sample count and one sequence of       *)
(* samples per channel; a tensor is its shape and its elements in          *)
(* row-major order.  A 32-bit word of memory read as a float is a sample   *)
(* value, half of a channel pointer's address, or something else.          *)
(***************************************************************************)
MaxChannels == 2
MaxSamples == 2

SampleValues == {0, 1}
Sample(v) == [k |-> "sample", v |-> v]
Addr(i) == [k |-> "addr", v |-> i]
Junk == [k |-> "junk", v |-> 0]

Samples == {Sample(v) : v \in SampleValues}
MemWords == Samples \cup {Junk}

AudioBuffer(nch, ns, data) == [nch |-> nch, ns |-> ns, data |-> data]
Buffers ==
  UNION {{AudioBuffer(c, n, d) : d \in [1..c -> [1..n -> Samples]]} :
           c \in 1..MaxChannels, n \in 1..MaxSamples}

EmptyBuffer == AudioBuffer(0, 0, <<>>)
NoTensor == [shape |-> <<>>, data |-> <<>>]

\* floats per channel pointer: a 4-byte or an 8-byte pointer, as the build has it
PointerWords == {1, 2}

\* the words after the pointer array that the blob still covers
TailLen(b, w) == IF b.nch * b.ns > w * b.nch THEN b.nch * b.ns - w * b.nch ELSE 0

\* torch::from_blob((void *) buffer.getArrayOfReadPointers(), {channels, samples},
\* float32).clone(): the blob starts at the array of channel pointers, so its
\* first words are the pointers themselves (w words each) and the rest is the
\* memory that follows the array (tail); the samples are not read through them
to_tensor(b, w, tail) ==
  [shape |-> <<b.nch, b.ns>>,
   data |-> [i \in 1..(b.nch * b.ns) |->
               IF i <= w * b.nch THEN Addr(i) ELSE tail[i - w * b.nch]]]

Rank(x) == Len(x.shape)

\* to_buffer sizing the destination as (size(1), size(0))
to_buffer_swapped(src_tensor, dest) ==
  LET rows == src_tensor.shape[1]
      cols == src_tensor.shape[2]
  IN AudioBuffer(cols, rows,
       [i \in 1..cols |-> [j \in 1..rows |-> src_tensor.data[(i - 1) * rows + j]]])

\* the number of elements of one src_tensor[i]: the product of the dimensions
\* after the first
RECURSIVE SlabLen(_, _)
SlabLen(shape, d) == IF d > Len(shape) THEN 1 ELSE shape[d] * SlabLen(shape, d + 1)

\* dest_buffer.setSize(size(0), size(1)), which drops what dest held, then for
\* each channel i the first size(1) floats at src_tensor[i].data_ptr<float>()
\* are copied into channel i: row i of a tensor of two dimensions, the start
\* of the i-th slab of a tensor of more
to_buffer(src_tensor, dest) ==
  LET rows == src_tensor.shape[1]
      cols == src_tensor.shape[2]
      slab == SlabLen(src_tensor.shape, 2)
  IN AudioBuffer(rows, cols,
       [i \in 1..rows |-> [j \in 1..cols |-> src_tensor.data[(i - 1) * slab + j]]])

\* The whole call.  assert(src_tensor.dim() == 2) aborts the program where
\* assertions are compiled in and is nothing where they are not (NDEBUG);
\* size(0) and size(1) are evaluated before setSize is entered and throw
\* c10::Error for a dimension the tensor does not have.
to_buffer_result(src_tensor, dest, asserts) ==
  IF Rank(src_tensor) # 2 /\ asserts
    THEN [result |-> "abort", dest |-> dest]
    ELSE IF Rank(src_tensor) < 2
      THEN [result |-> "c10::Error", dest |-> dest]
      ELSE [result |-> "true", dest |-> to_buffer(src_tensor, dest)]

\* tensors of zero to three dimensions whose i-th element is named i
Elem(i) == [k |-> "elem", v |-> i]
TestShapes ==
  {<<>>}
  \cup {<<n>> : n \in 1..MaxSamples}
  \cup {<<c, n>> : c \in 1..MaxChannels, n \in 1..MaxSamples}
  \cup {<<c, n, m>> : c \in 1..MaxChannels, n \in 1..MaxSamples, m \in 1..MaxSamples}
TestTensors ==
  {[shape |-> sh, data |-> [i \in 1..SlabLen(sh, 1) |-> Elem(i)]] : sh \in TestShapes}

(***************************************************************************)
(* The buffers and tensors of a process call.                              *)
(***************************************************************************)
\* no buffer at hand
NoBuf == EmptyBuffer
\* the audio a call is given when nothing else is said: two channels of one
\* sample each
InBuf == AudioBuffer(2, 1, <<<<Sample(0)>>, <<Sample(1)>>>>)
\* a buffer that undefined behaviour has written over
GarbageBuf == AudioBuffer(1, 1, <<<<Junk>>>>)

\* one buffer of every shape, its samples alternating between the two values
TestBuffers ==
  {AudioBuffer(c, n, [i \in 1..c |-> [j \in 1..n |-> Sample((i + j) % 2)]]) :
     c \in 1..MaxChannels, n \in 1..MaxSamples}

\* Tensor::mean(0, true): the mean over the first dimension, which is kept
\* with size 1.  A mean over C rows is held as the sum of the column (C is
\* the tensor's first dimension); a column that holds a word that is no
\* sample has a mean that is no sample's mean.
RECURSIVE SumTo(_, _)
SumTo(col, i) == IF i = 0 THEN 0 ELSE col[i].v + SumTo(col, i - 1)
MeanOf(col) ==
  IF \A i \in DOMAIN col : col[i].k = "sample"
    THEN [k |-> "mean", v |-> SumTo(col, Len(col))]
    ELSE Junk
Mean0(x) ==
  LET C == x.shape[1]
      N == x.shape[2]
  IN [shape |-> <<1, N>>,
      data |-> [j \in 1..N |-> MeanOf([i \in 1..C |-> x.data[(i - 1) * N + j]])]]

\* what a graph's forward pass may return as a tensor: audio of any number of
\* channels and samples, or a tensor that is no (channels, samples) matrix
OutShapes ==
  {<<c, n>> : c \in 1..MaxChannels, n \in 1..MaxSamples} \cup {<<1>>, <<1, 1, 1>>}
Outputs == {x \in TestTensors : x.shape \in OutShapes}
\* the smallest of them that is audio and the smallest that is not
SmallOutputs == {x \in Outputs : x.shape \in {<<1, 1>>, <<1, 1, 1>>}}

CodecOff ==
  /\ buffer = EmptyBuffer
  /\ tensor = NoTensor
  /\ dest_buffer = EmptyBuffer
  /\ codecAt = "off"

Snapshot == [model |-> m_model, loaded |-> m_loaded, card |-> m_card]
NoSnap == [model |-> "unset", loaded |-> FALSE, card |-> EmptyCard]
NoRet == [op |-> "none", result |-> "none", why |-> "none"]
NoEvent == [via |-> "none", by |-> "none", inCall |-> FALSE, card |-> EmptyCard,
            graph |-> Null, loaded |-> FALSE, holder |-> Free]

\* what an observer called by thread `by` finds: the handle's fields as they are
\* at that moment, and whether `by` is inside a call on the handle
Event(via, by) == [via |-> via, by |-> by, inCall |-> pc[by] # "idle",
                   card |-> m_card, graph |-> m_model, loaded |-> m_loaded,
                   holder |-> m_mutex]

handle == <<m_model, m_loaded, m_card>>
observers == <<changeListeners, changePending, callbackSet, lastEvent, notified,
               sent, owed>>
callstate == <<arg, pre, fired, audience, used, entry, inbuf>>
globals == <<variant, mIsModified, loadSucceeded, calls, procFailed, crashed>>
marshal == <<params, parameters, parameters2, handed>>
audio == <<input, output, mAudioBuffer>>
codec == <<buffer, tensor, dest_buffer, codecAt>>

Init ==
  /\ variant \in Variants
  /\ m_model = Null
  /\ m_loaded = FALSE
  /\ m_card = EmptyCard
  /\ m_mutex = Free
  /\ changeListeners = {}
  /\ changePending = FALSE
  /\ callbackSet = FALSE
  /\ pc = [t \in Threads |-> "idle"]
  /\ arg = [t \in Threads |-> "none"]
  /\ ret = [t \in Threads |-> NoRet]
  /\ pre = [t \in Threads |-> NoSnap]
  /\ fired = [t \in Threads |-> {}]
  /\ audience = [t \in Threads |-> {}]
  /\ used = [t \in Threads |-> Unread]
  /\ buf = [t \in Threads |-> NoBuf]
  /\ inbuf = [t \in Threads |-> NoBuf]
  /\ entry = [t \in Threads |-> "none"]
  /\ mIsModified = [t \in Threads |-> FALSE]
  /\ lastEvent = NoEvent
  /\ notified = [o \in Observers |-> 0]
  /\ owed = [o \in Observers |-> 0]
  /\ sent = [o \in Observers |-> 0]
  /\ loadSucceeded = FALSE
  /\ calls = 0
  /\ procFailed = FALSE
  /\ params = [t \in Threads |-> EmptyDict]
  /\ parameters = [t \in Threads |-> EmptyDict]
  /\ parameters2 = [t \in Threads |-> EmptyDict]
  /\ handed = [t \in Threads |-> NoForward]
  /\ input = [t \in Threads |-> NoTensor]
  /\ output = [t \in Threads |-> NoTensor]
  /\ mAudioBuffer = "none"
  /\ CodecOff
  /\ crashed = FALSE

(***************************************************************************)
(* Leaving a function, by return or by an exception that propagates: the   *)
(* outcome is fixed (Leave), then the lock_guard's destructor releases     *)
(* m_mutex and control is back in the caller (Return).                     *)
(***************************************************************************)
Leave(t, op, result, why) ==
  /\ pc' = [pc EXCEPT ![t] = "done"]
  /\ ret' = [ret EXCEPT ![t] = [op |-> op, result |-> result, why |-> why]]

Goto(t, label) == pc' = [pc EXCEPT ![t] = label] /\ UNCHANGED ret

\* AudioModification::process is past mModel->process(...), which returned
\* normally: it goes on to set mIsModified
ModelCallReturned(t) ==
  /\ entry[t] = "am"
  /\ ret[t].op = "process" /\ ret[t].result = "returned"
  /\ ret[t].why \notin {"NotReady", "InvalidReader"}

\* the call of thread t is leaving function op by an exception
Threw(t, op) == ret[t].op = op /\ ret[t].result \notin {"returned", "true", "false"}

\* process locking by hand (m_mutex.lock() ... m_mutex.unlock() before each
\* return) instead of a lock_guard: an exception skips the unlock
Return_leak(t) ==
  /\ ~crashed /\ pc[t] = "done"
  /\ m_mutex' = IF m_mutex = t /\ ~Threw(t, "process") THEN Free ELSE m_mutex
  /\ pc' = [pc EXCEPT ![t] = "idle"]
  /\ ret' = [ret EXCEPT ![t] = NoRet]
  /\ arg' = [arg EXCEPT ![t] = "none"]
  /\ pre' = [pre EXCEPT ![t] = NoSnap]
  /\ fired' = [fired EXCEPT ![t] = {}]
  /\ audience' = [audience EXCEPT ![t] = {}]
  /\ used' = [used EXCEPT ![t] = Unread]
  /\ entry' = [entry EXCEPT ![t] = "none"]
  /\ inbuf' = [inbuf EXCEPT ![t] = NoBuf]
  /\ mIsModified' = [mIsModified EXCEPT ![t] = @ \/ ModelCallReturned(t)]
  /\ procFailed' = (procFailed \/ Threw(t, "process"))
  /\ params' = [params EXCEPT ![t] = EmptyDict]
  /\ parameters' = [parameters EXCEPT ![t] = EmptyDict]
  /\ parameters2' = [parameters2 EXCEPT ![t] = EmptyDict]
  /\ handed' = [handed EXCEPT ![t] = NoForward]
  /\ input' = [input EXCEPT ![t] = NoTensor]
  /\ output' = [output EXCEPT ![t] = NoTensor]
  /\ UNCHANGED <<mAudioBuffer, codec, handle, observers, buf, variant, loadSucceeded, calls,
                 crashed>>

Return(t) ==
  /\ ~crashed /\ pc[t] = "done"
  /\ m_mutex' = IF m_mutex = t THEN Free ELSE m_mutex
  /\ pc' = [pc EXCEPT ![t] = "idle"]
  /\ ret' = [ret EXCEPT ![t] = NoRet]
  /\ arg' = [arg EXCEPT ![t] = "none"]
  /\ pre' = [pre EXCEPT ![t] = NoSnap]
  /\ fired' = [fired EXCEPT ![t] = {}]
  /\ audience' = [audience EXCEPT ![t] = {}]
  /\ used' = [used EXCEPT ![t] = Unread]
  /\ entry' = [entry EXCEPT ![t] = "none"]
  /\ inbuf' = [inbuf EXCEPT ![t] = NoBuf]
  /\ mIsModified' = [mIsModified EXCEPT ![t] = @ \/ ModelCallReturned(t)]
  /\ procFailed' = (procFailed \/ Threw(t, "process"))
  /\ params' = [params EXCEPT ![t] = EmptyDict]
  /\ parameters' = [parameters EXCEPT ![t] = EmptyDict]
  /\ parameters2' = [parameters2 EXCEPT ![t] = EmptyDict]
  /\ handed' = [handed EXCEPT ![t] = NoForward]
  /\ input' = [input EXCEPT ![t] = NoTensor]
  /\ output' = [output EXCEPT ![t] = NoTensor]
  /\ UNCHANGED <<mAudioBuffer, codec, handle, observers, buf, variant, loadSucceeded, calls,
                 crashed>>

(***************************************************************************)
(* TorchModel::load                                                        *)
(***************************************************************************)
\* a caller starts load(params)
CallLoad(t, a) ==
  /\ ~crashed /\ pc[t] = "idle" /\ calls < MaxCalls
  /\ calls' = calls + 1
  /\ arg' = [arg EXCEPT ![t] = a]
  /\ inbuf' = [inbuf EXCEPT ![t] = buf[t]]
  /\ Goto(t, "L_lock")
  /\ UNCHANGED <<marshal, audio, codec, handle, m_mutex, observers, pre, fired, audience, used, entry, buf,
                 variant, mIsModified, loadSucceeded, procFailed, crashed>>

\* std::lock_guard<std::mutex> lock(m_mutex)
L_lock(t) ==
  /\ ~crashed /\ pc[t] = "L_lock"
  /\ m_mutex = Free
  /\ m_mutex' = t
  /\ pre' = [pre EXCEPT ![t] = Snapshot]
  /\ audience' = [audience EXCEPT ![t] = changeListeners]
  /\ Goto(t, "L_path")
  /\ UNCHANGED <<marshal, audio, codec, handle, observers, arg, fired, used, entry, inbuf, buf, globals>>

\* load without its contains() guard: params.at throws std::out_of_range
L_path_unguarded(t) ==
  /\ ~crashed /\ pc[t] = "L_path"
  /\ \/ arg[t] = "nokey" /\ Leave(t, "load", "out_of_range", "MissingPath")
     \/ arg[t] = "notstring" /\ Leave(t, "load", "bad_any_cast", "BadPathType")
     \/ arg[t] \in Paths /\ Goto(t, "L_jit")
  /\ UNCHANGED <<marshal, audio, codec, handle, m_mutex, observers, callstate, buf, globals>>

\* modelparams::contains(params, "modelPath"), then any_cast<string>(params.at(..)):
\* no key returns false; a value that is no std::string throws std::bad_any_cast
\* before the try block is entered
L_path(t) ==
  /\ ~crashed /\ pc[t] = "L_path"
  /\ \/ arg[t] = "nokey" /\ Leave(t, "load", "false", "MissingPath")
     \/ arg[t] = "notstring" /\ Leave(t, "load", "bad_any_cast", "BadPathType")
     \/ arg[t] \in Paths /\ Goto(t, "L_jit")
  /\ UNCHANGED <<marshal, audio, codec, handle, m_mutex, observers, callstate, buf, globals>>

\* what load's handler does with a c10::Error thrown inside the try block:
\* TorchModel.cpp catches only `const char *`, so the error propagates;
\* the older revision catches c10::Error and returns false
Raise(t, why) ==
  IF variant = "new" THEN Leave(t, "load", "c10::Error", why)
                     ELSE Leave(t, "load", "false", why)

\* load rolling the loaded-flag back when deserialization fails
\* (catch (...) { m_loaded = false; ... })
L_jit_clears_flag(t) ==
  /\ ~crashed /\ pc[t] = "L_jit"
  /\ IF Deserializes(arg[t])
       THEN m_model' = arg[t] /\ Goto(t, "L_loaded") /\ UNCHANGED m_loaded
       ELSE Raise(t, "Deserialization") /\ m_loaded' = FALSE /\ UNCHANGED m_model
  /\ UNCHANGED <<marshal, audio, codec, m_card, m_mutex, observers, callstate, buf, globals>>

\* load releasing the old graph before it deserializes the new one
\* (m_model.reset(); m_model = make_unique<Module>(torch::jit::load(modelPath)))
L_jit_reset_first(t) ==
  /\ ~crashed /\ pc[t] = "L_jit"
  /\ IF Deserializes(arg[t])
       THEN m_model' = arg[t] /\ Goto(t, "L_loaded")
       ELSE Raise(t, "Deserialization") /\ m_model' = Null
  /\ UNCHANGED <<marshal, audio, codec, m_loaded, m_card, m_mutex, observers, callstate, buf, globals>>

\* m_model = std::make_unique<Module>(torch::jit::load(modelPath)); m_model->eval()
L_jit(t) ==
  /\ ~crashed /\ pc[t] = "L_jit"
  /\ IF Deserializes(arg[t])
       THEN m_model' = arg[t] /\ Goto(t, "L_loaded")
       ELSE Raise(t, "Deserialization") /\ UNCHANGED m_model
  /\ UNCHANGED <<marshal, audio, codec, m_loaded, m_card, m_mutex, observers, callstate, buf, globals>>

\* m_loaded = true
L_loaded(t) ==
  /\ ~crashed /\ pc[t] = "L_loaded"
  /\ m_loaded' = TRUE
  /\ Goto(t, IF variant = "new" THEN "L_send" ELSE "L_callback")
  /\ UNCHANGED <<marshal, audio, codec, m_model, m_card, m_mutex, observers, callstate, buf, globals>>

MarkSent == [o \in Observers |->
               IF o \in changeListeners THEN sent[o] + 1 ELSE sent[o]]
MarkNotified == [o \in Observers |->
                   IF o \in changeListeners THEN notified[o] + 1 ELSE notified[o]]
Fire(t, what) == fired' = [fired EXCEPT ![t] = @ \cup what]

\* sendSynchronousChangeMessage(), the call TorchModel.cpp has commented out:
\* every listener's changeListenerCallback runs inside load
L_send_sync(t) ==
  /\ ~crashed /\ pc[t] = "L_send"
  /\ notified' = MarkNotified
  /\ sent' = MarkSent
  /\ lastEvent' = IF changeListeners # {} THEN Event("change", t) ELSE lastEvent
  /\ Fire(t, IF changeListeners # {} THEN {"change"} ELSE {})
  /\ Goto(t, "L_attr")
  /\ UNCHANGED <<marshal, audio, codec, handle, m_mutex, changeListeners, changePending, callbackSet,
                 owed, arg, pre, audience, used, entry, inbuf, buf, globals>>

\* sendChangeMessage(): juce::ChangeBroadcaster posts one asynchronous update
\* when it has listeners; an update already pending absorbs the new one
L_send(t) ==
  /\ ~crashed /\ pc[t] = "L_send"
  /\ changePending' = (changePending \/ changeListeners # {})
  /\ sent' = MarkSent
  /\ Fire(t, IF changeListeners # {} THEN {"change"} ELSE {})
  /\ Goto(t, "L_attr")
  /\ UNCHANGED <<marshal, audio, codec, handle, m_mutex, changeListeners, callbackSet, lastEvent,
                 notified, owed, arg, pre, audience, used, entry, inbuf, buf, globals>>

\* auto pycard = m_model->attr("model_card").toObject()
L_attr(t) ==
  /\ ~crashed /\ pc[t] = "L_attr"
  /\ IF HasModelCard(m_model) THEN Goto(t, "L_name") ELSE Raise(t, "Metadata")
  /\ UNCHANGED <<marshal, audio, codec, handle, m_mutex, observers, callstate, buf, globals>>

\* m_card.<f> = pycard->getAttr("<f>")...: an absent attribute throws
SetField(t, at, f, next) ==
  /\ ~crashed /\ pc[t] = at
  /\ IF HasAttr(m_model, f)
       THEN m_card' = [m_card EXCEPT ![f] = Declared(m_model)[f]] /\ Goto(t, next)
       ELSE Raise(t, "Metadata") /\ UNCHANGED m_card
  /\ UNCHANGED <<marshal, audio, codec, m_model, m_loaded, m_mutex, observers, callstate, buf, globals>>

L_name(t) == SetField(t, "L_name", "name", "L_description")
L_description(t) == SetField(t, "L_description", "description", "L_author")
L_author(t) == SetField(t, "L_author", "author", "L_sampleRate")
L_sampleRate(t) == SetField(t, "L_sampleRate", "sampleRate", "L_tags")

\* for (tag : pycard->getAttr("tags").toListRef()) m_card.tags.push_back(tag)
L_tags(t) ==
  /\ ~crashed /\ pc[t] = "L_tags"
  /\ m_card' = [m_card EXCEPT !.tags = @ \o Declared(m_model).tags]
  /\ Goto(t, "L_broadcast")
  /\ UNCHANGED <<marshal, audio, codec, m_model, m_loaded, m_mutex, observers, callstate, buf, globals>>

\* What the observer called inside load does.  It returns; or it calls load
\* or process on the same handle, whose lock_guard locks the std::mutex its own
\* thread holds.  That is undefined behaviour: the thread blocks for good
\* inside lock(), or lock() reports the deadlock by throwing
\* std::system_error, which no handler in load matches.
Observer(t) ==
  \/ Goto(t, "L_ret")
  \/ Goto(t, "L_relock")
  \/ Leave(t, "load", "system_error", "Relock")

\* broadcastModelCardLoaded(): the card's listeners are called inside load
L_broadcast(t) ==
  /\ ~crashed /\ pc[t] = "L_broadcast"
  /\ lastEvent' = Event("card", t)
  /\ Fire(t, {"card"})
  /\ Observer(t)
  /\ UNCHANGED <<marshal, audio, codec, handle, m_mutex, changeListeners, changePending, callbackSet,
                 notified, sent, owed, arg, pre, audience, used, entry, inbuf,
                 buf, globals>>

\* load calling the editor's callback after it has given up the mutex
L_callback_unlocked(t) ==
  /\ ~crashed /\ pc[t] = "L_callback"
  /\ IF callbackSet
       THEN /\ lastEvent' = [Event("callback", t) EXCEPT !.holder = Free]
            /\ Fire(t, {"callback"})
            /\ Goto(t, "L_ret")
            /\ m_mutex' = Free
       ELSE /\ Leave(t, "load", "bad_function_call", "Callback")
            /\ UNCHANGED <<lastEvent, fired, m_mutex>>
  /\ UNCHANGED <<marshal, audio, codec, handle, changeListeners, changePending, callbackSet,
                 notified, sent, owed, arg, pre, audience, used, entry, inbuf,
                 buf, globals>>

\* editorsWidgetCreationCallback(skata) (older revision): an empty
\* std::function throws std::bad_function_call, which no handler matches
L_callback(t) ==
  /\ ~crashed /\ pc[t] = "L_callback"
  /\ IF callbackSet
       THEN /\ lastEvent' = Event("callback", t)
            /\ Fire(t, {"callback"})
            /\ Observer(t)
       ELSE /\ Leave(t, "load", "bad_function_call", "Callback")
            /\ UNCHANGED <<lastEvent, fired>>
  /\ UNCHANGED <<marshal, audio, codec, handle, m_mutex, changeListeners, changePending, callbackSet,
                 notified, sent, owed, arg, pre, audience, used, entry, inbuf,
                 buf, globals>>

\* return true
L_ret(t) ==
  /\ ~crashed /\ pc[t] = "L_ret"
  /\ Leave(t, "load", "true", "none")
  /\ loadSucceeded' = TRUE
  /\ owed' = [o \in Observers |->
                IF o \in audience[t] THEN owed[o] + 1 ELSE owed[o]]
  /\ UNCHANGED <<marshal, audio, codec, handle, m_mutex, changeListeners, changePending, callbackSet,
                 lastEvent, notified, sent, callstate, buf, variant, mIsModified,
                 calls, procFailed, crashed>>


(***************************************************************************)
(* Observers                                                               *)
(***************************************************************************)
\* TorchModel::addListener -> addChangeListener, on the message thread
AddListener(o) ==
  /\ ~crashed /\ variant = "new" /\ pc[MsgThread] = "idle"
  /\ o \notin changeListeners
  /\ changeListeners' = changeListeners \cup {o}
  /\ UNCHANGED <<marshal, audio, codec, handle, m_mutex, changePending, callbackSet, lastEvent, notified,
                 sent, owed, pc, ret, callstate, buf, globals>>

\* the message thread handles the pending update: one changeListenerCallback
\* per registered listener, each reading the handle without the mutex
DeliverChange ==
  /\ ~crashed /\ changePending /\ pc[MsgThread] = "idle"
  /\ changePending' = FALSE
  /\ notified' = MarkNotified
  /\ lastEvent' = Event("change", MsgThread)
  /\ UNCHANGED <<marshal, audio, codec, handle, m_mutex, changeListeners, callbackSet, sent, owed, pc,
                 ret, callstate, buf, globals>>

\* TorchModel::setTheCallbackFromAudioModification (older revision)
SetCallback ==
  /\ ~crashed /\ variant = "old" /\ ~callbackSet
  /\ callbackSet' = TRUE
  /\ UNCHANGED <<marshal, audio, codec, handle, m_mutex, changeListeners, changePending, lastEvent,
                 notified, sent, owed, pc, ret, callstate, buf, globals>>

(***************************************************************************)
(* TorchWave2Wave::process and AudioModification::process                  *)
(***************************************************************************)
StartProcess(t, a, how) ==
  /\ ~crashed /\ pc[t] = "idle" /\ calls < MaxCalls
  /\ calls' = calls + 1
  /\ params' = [params EXCEPT ![t] = a]
  /\ entry' = [entry EXCEPT ![t] = how]
  /\ UNCHANGED <<arg, parameters, parameters2, handed, audio, codec, handle, m_mutex, observers, pre, fired, audience, used,
                 variant, mIsModified,
                 loadSucceeded, procFailed, crashed>>

\* a holder of the shared TorchWave2Wave calls process(&b, sampleRate, a)
CallProcess(t, a, b) ==
  /\ StartProcess(t, a, "direct")
  /\ buf' = [buf EXCEPT ![t] = b]
  /\ inbuf' = [inbuf EXCEPT ![t] = b]
  /\ Goto(t, "P_lock")

\* AudioModification::process(params) is called
CallAMProcess(t, a) ==
  /\ StartProcess(t, a, "am")
  /\ inbuf' = [inbuf EXCEPT ![t] = buf[t]]
  /\ Goto(t, "A_ready")
  /\ UNCHANGED buf

\* AudioModification::process without its ready() check
A_ready_absent(t) ==
  /\ ~crashed /\ pc[t] = "A_ready"
  /\ Goto(t, "A_read")
  /\ UNCHANGED <<marshal, audio, codec, handle, m_mutex, observers, callstate, buf, globals>>

\* if (!mModel->ready()) return;   -- m_loaded is read without the mutex
A_ready(t) ==
  /\ ~crashed /\ pc[t] = "A_ready"
  /\ IF m_loaded THEN Goto(t, "A_read")
                 ELSE Leave(t, "process", "returned", "NotReady")
  /\ UNCHANGED <<marshal, audio, codec, handle, m_mutex, observers, callstate, buf, globals>>

\* an invalid reader only logs; otherwise mAudioBuffer is replaced by a fresh
\* buffer, filled from the audio source, and handed to the model
A_read(t) ==
  /\ ~crashed /\ pc[t] = "A_read"
  /\ \E valid \in BOOLEAN :
       IF valid
         THEN /\ buf' = [buf EXCEPT ![t] = InBuf]
              /\ inbuf' = [inbuf EXCEPT ![t] = InBuf]
              /\ mAudioBuffer' = t
              /\ Goto(t, "P_lock")
         ELSE /\ Leave(t, "process", "returned", "InvalidReader")
              /\ UNCHANGED <<buf, inbuf, mAudioBuffer>>
  /\ UNCHANGED <<marshal, input, output, codec, handle, m_mutex, observers, arg, pre, fired, audience, used,
                 entry, globals>>

\* process without its lock_guard
P_lock_absent(t) ==
  /\ ~crashed /\ pc[t] = "P_lock"
  /\ pre' = [pre EXCEPT ![t] = Snapshot]
  /\ Goto(t, "P_input")
  /\ UNCHANGED <<marshal, audio, codec, handle, m_mutex, observers, arg, fired, audience, used, entry,
                 inbuf, buf, globals>>

\* std::lock_guard<std::mutex> lock(m_mutex)
P_lock(t) ==
  /\ ~crashed /\ pc[t] = "P_lock"
  /\ m_mutex = Free
  /\ m_mutex' = t
  /\ pre' = [pre EXCEPT ![t] = Snapshot]
  /\ Goto(t, "P_input")
  /\ UNCHANGED <<marshal, audio, codec, handle, observers, arg, fired, audience, used, entry, inbuf,
                 buf, globals>>

\* the buffer of an AudioModification's call has been freed under it: another
\* call's mAudioBuffer.reset(new ...) has replaced it
UseAfterFree(t) == entry[t] = "am" /\ mAudioBuffer # t

\* the program faults
Fault ==
  /\ crashed' = TRUE
  /\ UNCHANGED <<marshal, audio, codec, handle, m_mutex, observers, callstate, buf, pc, ret,
                 variant, mIsModified, loadSucceeded, calls, procFailed>>

\* the input tensor and the parameter dictionaries are built.  The older
\* revision has parameters.insert("gain", tensor({any_cast<double>(params.at("A"))})):
\* at throws std::out_of_range when the key is absent and any_cast throws
\* std::bad_any_cast when the value is no double, both outside the try block
P_input(t) ==
  /\ ~crashed /\ pc[t] = "P_input"
  /\ \/ \* reading a freed buffer faults, or goes on as below
        UseAfterFree(t) /\ Fault
     \/ /\ IF variant = "old"
             THEN IF "A" \notin DOMAIN params[t]
                    THEN /\ Leave(t, "process", "out_of_range", "Marshal")
                         /\ UNCHANGED <<parameters, parameters2>>
                  ELSE IF params[t]["A"].type # "double"
                    THEN /\ Leave(t, "process", "bad_any_cast", "Marshal")
                         /\ UNCHANGED <<parameters, parameters2>>
                    ELSE /\ parameters' = [parameters EXCEPT ![t] =
                              Insert(EmptyDict, "gain", Tensor1(params[t]["A"].n))]
                         /\ Goto(t, "P_card")
                         /\ UNCHANGED parameters2
             ELSE /\ parameters' = [parameters EXCEPT ![t] = Marshal(params[t]).parameters]
                  /\ parameters2' = [parameters2 EXCEPT ![t] = Marshal(params[t]).parameters2]
                  /\ Goto(t, "P_resample")
        /\ \E w \in PointerWords :
             \E tail \in [1..TailLen(buf[t], w) -> MemWords] :
               input' = [input EXCEPT ![t] = Mean0(to_tensor(buf[t], w, tail))]
        /\ UNCHANGED <<params, handed, output, mAudioBuffer, codec, handle, m_mutex, observers,
                       callstate, buf, globals>>

\* m_model-> on an empty unique_ptr is undefined behaviour: the process faults,
\* or the call carries on and ends with the buffer untouched or overwritten
NullDeref(t) ==
  /\ used' = [used EXCEPT ![t] = Null]
  /\ \/ /\ crashed' = TRUE
        /\ UNCHANGED <<pc, ret, buf>>
     \/ /\ UNCHANGED crashed
        /\ Leave(t, "process", "returned", "UB")
        /\ \E b \in {buf[t], GarbageBuf} : buf' = [buf EXCEPT ![t] = b]

\* auto card = m_model->attr("model_card").toObject()  (older revision, before
\* the try block)
P_card(t) ==
  /\ ~crashed /\ pc[t] = "P_card"
  /\ IF m_model = Null
       THEN NullDeref(t)
       ELSE /\ used' = [used EXCEPT ![t] = m_model]
            /\ IF HasModelCard(m_model)
                 THEN Goto(t, "P_resample")
                 ELSE Leave(t, "process", "c10::Error", "Metadata")
            /\ UNCHANGED <<buf, crashed>>
  /\ UNCHANGED <<marshal, audio, codec, handle, m_mutex, observers, arg, pre, fired, audience, entry, inbuf,
                 variant, mIsModified, loadSucceeded, calls, procFailed>>

\* m_model->get_method("resample")({input, sampleRate}).toTensor(): a c10::Error
\* is not matched by `catch (const char *)` and leaves process
P_resample(t) ==
  /\ ~crashed /\ pc[t] = "P_resample"
  /\ IF m_model = Null
       THEN NullDeref(t)
       ELSE /\ used' = [used EXCEPT ![t] = m_model]
            /\ \E ok \in BOOLEAN :
                 IF ok THEN Goto(t, "P_forward")
                       ELSE Leave(t, "process", "c10::Error", "Resample")
            /\ UNCHANGED <<buf, crashed>>
  /\ UNCHANGED <<marshal, audio, codec, handle, m_mutex, observers, arg, pre, fired, audience, entry, inbuf,
                 variant, mIsModified, loadSucceeded, calls, procFailed>>

\* process emptying the caller's buffer when the forward pass fails
P_forward_clobbers(t, results) ==
  /\ ~crashed /\ pc[t] = "P_forward"
  /\ \/ \E x \in results :
          /\ output' = [output EXCEPT ![t] = x]
          /\ Goto(t, "P_decode")
          /\ UNCHANGED buf
     \/ /\ Leave(t, "process", "c10::Error", "Forward")
        /\ buf' = [buf EXCEPT ![t] = EmptyBuffer]
        /\ UNCHANGED output
     \/ /\ Leave(t, "process", "c10::Error", "Decode")
        /\ UNCHANGED <<output, buf>>
  /\ handed' = [handed EXCEPT ![t] = [called |-> TRUE, dict |-> parameters[t]]]
  /\ UNCHANGED <<params, parameters, parameters2, input, mAudioBuffer, codec, handle, m_mutex,
                 observers, callstate, globals>>

\* forward({resampled, parameters}).toTensor(): the forward pass throws, or
\* returns an IValue that is no tensor (toTensor throws), or returns a tensor,
\* one of results
P_forward(t, results) ==
  /\ ~crashed /\ pc[t] = "P_forward"
  /\ \/ \E x \in results :
          /\ output' = [output EXCEPT ![t] = x]
          /\ Goto(t, "P_decode")
     \/ /\ Leave(t, "process", "c10::Error", "Forward")
        /\ UNCHANGED output
     \/ /\ Leave(t, "process", "c10::Error", "Decode")
        /\ UNCHANGED output
  /\ handed' = [handed EXCEPT ![t] = [called |-> TRUE, dict |-> parameters[t]]]
  /\ UNCHANGED <<params, parameters, parameters2, input, mAudioBuffer, codec, handle, m_mutex,
                 observers, callstate, buf, globals>>

\* TorchModel::to_buffer(output, *bufferToProcess); return.  A failed assert
\* ends the program; a c10::Error from size() leaves process like any other
P_decode(t) ==
  /\ ~crashed /\ pc[t] = "P_decode"
  /\ \/ \* writing a freed buffer faults, or goes on as below
        UseAfterFree(t) /\ Fault
     \/ /\ \E asserts \in BOOLEAN :
             LET r == to_buffer_result(output[t], buf[t], asserts)
             IN /\ buf' = [buf EXCEPT ![t] = r.dest]
                /\ CASE r.result = "true" ->
                          Leave(t, "process", "returned", "none") /\ UNCHANGED crashed
                     [] r.result = "c10::Error" ->
                          Leave(t, "process", "c10::Error", "Decode") /\ UNCHANGED crashed
                     [] r.result = "abort" ->
                          crashed' = TRUE /\ UNCHANGED <<pc, ret>>
        /\ UNCHANGED <<marshal, audio, codec, handle, m_mutex, observers, callstate, variant,
                       mIsModified, loadSucceeded, calls, procFailed>>

(***************************************************************************)
(* The system                                                              *)
(***************************************************************************)
Next ==
  \/ \E t \in Threads, a \in LoadArgs : CallLoad(t, a)
  \/ \E t \in Threads : L_lock(t)
  \/ \E t \in Threads : L_path(t)
  \/ \E t \in Threads : L_jit(t)
  \/ \E t \in Threads : L_loaded(t)
  \/ \E t \in Threads : L_send(t)
  \/ \E t \in Threads : L_attr(t)
  \/ \E t \in Threads : L_name(t)
  \/ \E t \in Threads : L_description(t)
  \/ \E t \in Threads : L_author(t)
  \/ \E t \in Threads : L_sampleRate(t)
  \/ \E t \in Threads : L_tags(t)
  \/ \E t \in Threads : L_broadcast(t)
  \/ \E t \in Threads : L_callback(t)
  \/ \E t \in Threads : L_ret(t)
  \/ \E t \in Threads : Return(t)
  \/ \E o \in Observers : AddListener(o)
  \/ DeliverChange
  \/ SetCallback
  \/ \E t \in Threads, a \in ProcArgs : CallProcess(t, a, InBuf)
  \/ \E t \in Threads, a \in ProcArgs : CallAMProcess(t, a)
  \/ \E t \in Threads : A_ready(t)
  \/ \E t \in Threads : A_read(t)
  \/ \E t \in Threads : P_lock(t)
  \/ \E t \in Threads : P_input(t)
  \/ \E t \in Threads : P_card(t)
  \/ \E t \in Threads : P_resample(t)
  \/ \E t \in Threads : P_forward(t, SmallOutputs)
  \/ \E t \in Threads : P_decode(t)

Spec == Init /\ [][Next]_vars

(***************************************************************************)
(* process on a loaded handle, with every parameter map.  The initial      *)
(* state is the one the message thread's first load of "g1" leaves behind  *)
(* when no listener is registered (in the older revision the editor's      *)
(* callback is set, or load would not have returned).                      *)
(***************************************************************************)
LoadedHandle ==
  /\ variant \in Variants
  /\ m_model = "g1"
  /\ m_loaded = TRUE
  /\ m_card = IF variant = "new" THEN Declared("g1") ELSE EmptyCard
  /\ m_mutex = Free
  /\ changeListeners = {}
  /\ changePending = FALSE
  /\ callbackSet = (variant = "old")
  /\ pc = [t \in Threads |-> "idle"]
  /\ arg = [t \in Threads |-> "none"]
  /\ ret = [t \in Threads |-> NoRet]
  /\ pre = [t \in Threads |-> NoSnap]
  /\ fired = [t \in Threads |-> {}]
  /\ audience = [t \in Threads |-> {}]
  /\ used = [t \in Threads |-> Unread]
  /\ buf = [t \in Threads |-> NoBuf]
  /\ inbuf = [t \in Threads |-> NoBuf]
  /\ entry = [t \in Threads |-> "none"]
  /\ mIsModified = [t \in Threads |-> FALSE]
  /\ lastEvent = [via |-> IF variant = "new" THEN "card" ELSE "callback",
                  by |-> MsgThread, inCall |-> TRUE, card |-> m_card,
                  graph |-> "g1", loaded |-> TRUE, holder |-> MsgThread]
  /\ notified = [o \in Observers |-> 0]
  /\ owed = [o \in Observers |-> 0]
  /\ sent = [o \in Observers |-> 0]
  /\ loadSucceeded = TRUE
  /\ procFailed = FALSE
  /\ params = [t \in Threads |-> EmptyDict]
  /\ parameters = [t \in Threads |-> EmptyDict]
  /\ parameters2 = [t \in Threads |-> EmptyDict]
  /\ handed = [t \in Threads |-> NoForward]
  /\ input = [t \in Threads |-> NoTensor]
  /\ output = [t \in Threads |-> NoTensor]
  /\ mAudioBuffer = "none"
  /\ CodecOff
  /\ crashed = FALSE

\* the load that led here was the run's first call
LoadedInit == LoadedHandle /\ calls = 1

\* the thread that calls process here (two racing calls are covered by Spec)
ProcessCallers == {"worker"}

ProcessNext ==
  \/ \E t \in ProcessCallers, a \in ParamMaps : CallProcess(t, a, InBuf)
  \/ \E t \in ProcessCallers, a \in ParamMaps : CallAMProcess(t, a)
  \/ \E t \in ProcessCallers : A_ready(t)
  \/ \E t \in ProcessCallers : A_read(t)
  \/ \E t \in ProcessCallers : P_lock(t)
  \/ \E t \in ProcessCallers : P_input(t)
  \/ \E t \in ProcessCallers : P_card(t)
  \/ \E t \in ProcessCallers : P_resample(t)
  \/ \E t \in ProcessCallers : P_forward(t, SmallOutputs)
  \/ \E t \in ProcessCallers : P_decode(t)
  \/ \E t \in ProcessCallers : Return(t)

ProcessSpec == LoadedInit /\ [][ProcessNext]_vars

(***************************************************************************)
(* process on a loaded handle, with an audio buffer of every shape.        *)
(***************************************************************************)
DataNext ==
  \/ \E t \in ProcessCallers, a \in ProcArgs, b \in TestBuffers : CallProcess(t, a, b)
  \/ \E t \in ProcessCallers : P_lock(t)
  \/ \E t \in ProcessCallers : P_input(t)
  \/ \E t \in ProcessCallers : P_card(t)
  \/ \E t \in ProcessCallers : P_resample(t)
  \/ \E t \in ProcessCallers : P_forward(t, Outputs)
  \/ \E t \in ProcessCallers : P_decode(t)
  \/ \E t \in ProcessCallers : Return(t)

DataSpec == LoadedInit /\ [][DataNext]_vars

(***************************************************************************)
(* AudioModification::process called by both threads on one                *)
(* AudioModification whose model is loaded.  The run starts with the       *)
(* loaded handle, so that two calls fit into it.                           *)
(***************************************************************************)
AMInit == LoadedHandle /\ calls = 0

AMNext ==
  \/ \E t \in Threads, a \in ProcArgs : CallAMProcess(t, a)
  \/ \E t \in Threads : A_ready(t)
  \/ \E t \in Threads : A_read(t)
  \/ \E t \in Threads : P_lock(t)
  \/ \E t \in Threads : P_input(t)
  \/ \E t \in Threads : P_card(t)
  \/ \E t \in Threads : P_resample(t)
  \/ \E t \in Threads : P_forward(t, SmallOutputs)
  \/ \E t \in Threads : P_decode(t)
  \/ \E t \in Threads : Return(t)

AMSpec == AMInit /\ [][AMNext]_vars

(***************************************************************************)
(* The codec on its own: to_tensor of any buffer, then to_buffer of the    *)
(* result into any destination buffer.  Both are static and touch no       *)
(* handle.                                                                 *)
(***************************************************************************)
HandleUntouched ==
  UNCHANGED <<handle, m_mutex, observers, pc, ret, callstate, buf, globals, marshal, audio>>

CodecInit ==
  /\ variant \in Variants
  /\ m_model = Null
  /\ m_loaded = FALSE
  /\ m_card = EmptyCard
  /\ m_mutex = Free
  /\ changeListeners = {}
  /\ changePending = FALSE
  /\ callbackSet = FALSE
  /\ pc = [t \in Threads |-> "idle"]
  /\ arg = [t \in Threads |-> "none"]
  /\ ret = [t \in Threads |-> NoRet]
  /\ pre = [t \in Threads |-> NoSnap]
  /\ fired = [t \in Threads |-> {}]
  /\ audience = [t \in Threads |-> {}]
  /\ used = [t \in Threads |-> Unread]
  /\ buf = [t \in Threads |-> NoBuf]
  /\ inbuf = [t \in Threads |-> NoBuf]
  /\ entry = [t \in Threads |-> "none"]
  /\ mIsModified = [t \in Threads |-> FALSE]
  /\ lastEvent = NoEvent
  /\ notified = [o \in Observers |-> 0]
  /\ owed = [o \in Observers |-> 0]
  /\ sent = [o \in Observers |-> 0]
  /\ loadSucceeded = FALSE
  /\ calls = 0
  /\ procFailed = FALSE
  /\ params = [t \in Threads |-> EmptyDict]
  /\ parameters = [t \in Threads |-> EmptyDict]
  /\ parameters2 = [t \in Threads |-> EmptyDict]
  /\ handed = [t \in Threads |-> NoForward]
  /\ input = [t \in Threads |-> NoTensor]
  /\ output = [t \in Threads |-> NoTensor]
  /\ mAudioBuffer = "none"
  /\ crashed = FALSE
  /\ dest_buffer \in Buffers
  /\ \/ /\ buffer \in Buffers
        /\ tensor = NoTensor
        /\ codecAt = "encode"
     \/ \* to_buffer alone, on a tensor of any rank; buffer keeps what the
        \* destination held before the call
        /\ buffer = dest_buffer
        /\ tensor \in TestTensors
        /\ codecAt = "to_buffer"

\* tensor = TorchModel::to_tensor(buffer)
C_to_tensor ==
  /\ codecAt = "encode"
  /\ \E w \in PointerWords :
       \E tail \in [1..TailLen(buffer, w) -> MemWords] :
         tensor' = to_tensor(buffer, w, tail)
  /\ codecAt' = "decode"
  /\ UNCHANGED <<buffer, dest_buffer>>
  /\ HandleUntouched

\* TorchModel::to_buffer(tensor, dest_buffer), in a build with or without
\* assertions
C_to_buffer ==
  /\ codecAt \in {"decode", "to_buffer"}
  /\ \E asserts \in BOOLEAN :
       LET r == to_buffer_result(tensor, dest_buffer, asserts)
       IN /\ dest_buffer' = r.dest
          /\ codecAt' = IF codecAt = "decode" /\ r.result = "true"
                          THEN "done" ELSE r.result
  /\ UNCHANGED <<buffer, tensor>>
  /\ HandleUntouched

CodecNext == C_to_tensor \/ C_to_buffer

CodecSpec == CodecInit /\ [][CodecNext]_vars


(***************************************************************************)
(* Vocabulary of the properties                                            *)
(***************************************************************************)
LoadBody == {"L_path", "L_jit", "L_loaded", "L_send", "L_attr", "L_name",
             "L_description", "L_author", "L_sampleRate", "L_tags",
             "L_broadcast", "L_callback", "L_relock", "L_ret"}
ProcessBody == {"P_input", "P_card", "P_resample", "P_forward", "P_decode"}

\* thread t is between the lock_guard's construction and its destruction
InBody(t) ==
  \/ pc[t] \in LoadBody \cup ProcessBody
  \/ pc[t] = "done" /\ ret[t].why \notin {"NotReady", "InvalidReader"}

IsSuffix(s, w) ==
  /\ Len(s) <= Len(w)
  /\ SubSeq(w, Len(w) - Len(s) + 1, Len(w)) = s

\* card c holds everything load reads from graph g's model_card
FullCard(c, g) ==
  /\ g \in Graphs
  /\ Complete(g)
  /\ c.name = Declared(g).name
  /\ c.description = Declared(g).description
  /\ c.author = Declared(g).author
  /\ c.sampleRate = Declared(g).sampleRate
  /\ IsSuffix(Declared(g).tags, c.tags)

LoadEnded(t) == pc[t] = "done" /\ ret[t].op = "load"
LoadFailed(t) == LoadEnded(t) /\ ret[t].result # "true"
ProcessEnded(t) == pc[t] = "done" /\ ret[t].op = "process"
SpecFailures == {"MissingPath", "Deserialization", "Metadata"}

(***************************************************************************)
(* C1: at most one load or process call on the handle is inside its body   *)
(* at any time, and the call that is inside holds m_mutex.                 *)
(***************************************************************************)
C1_MutualExclusion ==
  /\ \A t, u \in Threads : (t # u /\ InBody(t)) => ~InBody(u)
  /\ \A t \in Threads : InBody(t) => m_mutex = t

\* a load is inside its body while a process call waits for the mutex
C1_Witness ==
  \E t, u \in Threads : pc[t] \in LoadBody /\ pc[u] = "P_lock"

(***************************************************************************)
(* C2: a process call never reads a null graph reference or one that is    *)
(* being replaced: the graph it reads is a graph, and it is the one        *)
(* installed when the call took the mutex.                                 *)
(***************************************************************************)
C2_ProcessReadsInstalledGraph ==
  \A t \in Threads :
    used[t] # Unread => (used[t] \in Graphs /\ used[t] = pre[t].model)

(***************************************************************************)
(* C3: whenever a notification fired by load reaches an observer, the      *)
(* card is fully populated from the graph the handle holds.                *)
(***************************************************************************)
C3_ObserverSeesFullCard ==
  lastEvent.via \in {"change", "card"} => FullCard(lastEvent.card, lastEvent.graph)

(***************************************************************************)
(* C4: ready() true implies that the card of the current graph is fully    *)
(* populated.                                                              *)
(***************************************************************************)
C4_ReadyImpliesFullCard ==
  (variant = "new" /\ m_loaded) => FullCard(m_card, m_model)

C6_FailedLoadChangesNothing ==
  \A t \in Threads :
    (LoadFailed(t) /\ ret[t].why \in SpecFailures) => Snapshot = pre[t]

(***************************************************************************)
(* C7: a load that fails fires no notification.                            *)
(***************************************************************************)
C7_FailedLoadFiresNothing ==
  \A t \in Threads :
    (LoadFailed(t) /\ ret[t].why \in SpecFailures) => fired[t] = {}

(***************************************************************************)
(* C8: while no load has succeeded, process is a no-op: it returns         *)
(* normally, reads no graph reference and leaves the buffer as it was.     *)
(***************************************************************************)
C8_ProcessBeforeLoadIsNoOp ==
  ~loadSucceeded =>
    /\ ~crashed
    /\ \A t \in Threads :
         /\ entry[t] # "none" => used[t] = Unread
         /\ ProcessEnded(t) => (ret[t].result = "returned" /\ buf[t] = inbuf[t])

(***************************************************************************)
(* C9: load without a "modelPath" key returns false, throws nothing and    *)
(* leaves ready() as it was.                                               *)
(***************************************************************************)
C9_MissingPathReturnsFalse ==
  \A t \in Threads :
    (LoadEnded(t) /\ arg[t] = "nokey") =>
      (ret[t].result = "false" /\ m_loaded = pre[t].loaded)

\* load({}) has returned false on a handle whose ready() was and stays true
C9_Witness ==
  \E t \in Threads :
    /\ LoadEnded(t) /\ arg[t] = "nokey" /\ ret[t].result = "false"
    /\ loadSucceeded /\ m_loaded

(***************************************************************************)
(* C10: load returns false, and throws nothing, when the graph cannot be   *)
(* deserialized, the model_card cannot be read, or modelPath is not a      *)
(* string.                                                                 *)
(***************************************************************************)
C10_LoadNeverThrows ==
  \A t \in Threads :
    (LoadEnded(t) /\ ret[t].why \in {"Deserialization", "Metadata", "BadPathType"})
      => ret[t].result = "false"

(***************************************************************************)
(* C11: load returns true only when the graph and the metadata were both   *)
(* loaded: when load returns true, ready() is true, the handle holds the   *)
(* graph this call deserialized, that graph declares every card field,     *)
(* and the card's name, author, description and sampleRate are the values  *)
(* it declares (the older revision keeps no card member to compare).       *)
(***************************************************************************)
C11_TrueMeansGraphAndMetadata ==
  /\ loadSucceeded => m_loaded
  /\ \A t \in Threads :
       (LoadEnded(t) /\ ret[t].result = "true") =>
         /\ m_loaded
         /\ m_model = arg[t]
         /\ Complete(arg[t])
         /\ variant = "new" =>
              \A f \in {"name", "author", "description", "sampleRate"} :
                m_card[f] = Declared(arg[t])[f]

(***************************************************************************)
(* C12: a successful load replaces the card wholesale: when load returns   *)
(* true every card field, the ordered tag sequence included, is exactly    *)
(* what the graph it loaded declares, with nothing left of earlier loads.  *)
(***************************************************************************)
C12_CardReplacedWholesale ==
  \A t \in Threads :
    (variant = "new" /\ LoadEnded(t) /\ ret[t].result = "true") =>
      m_card = Declared(arg[t])

(***************************************************************************)
(* C13: while no load is inside its body, the graph reference is non-null  *)
(* exactly when the loaded-flag is true, whatever calls came before and    *)
(* however they ended.                                                     *)
(***************************************************************************)
C13_GraphIffLoaded ==
  (\A t \in Threads : pc[t] \notin LoadBody) => (m_model # Null <=> m_loaded)

\* a load has failed to deserialize on a handle that holds a graph
C13_Witness ==
  \E t \in Threads :
    /\ LoadFailed(t) /\ ret[t].why = "Deserialization"
    /\ pre[t].model # Null /\ m_model # Null /\ m_loaded

(***************************************************************************)
(* C14: no failure inside process reaches the caller as an uncaught fault: *)
(* when marshalling, the resample call, the forward pass or the conversion *)
(* of the result fails, process returns normally.                          *)
(***************************************************************************)
ProcessFailures == {"Marshal", "Resample", "Forward", "Decode"}

C14_ProcessNeverThrows ==
  \A t \in Threads :
    (ProcessEnded(t) /\ ret[t].why \in ProcessFailures) => ret[t].result = "returned"

(***************************************************************************)
(* C15: a process call that fails leaves the handle as it was (graph,      *)
(* loaded-flag, card) and gives the lock back: the mutex is held only by a *)
(* thread that is inside load or process, never by one that has left, so   *)
(* the next call on the handle acquires it and runs.                       *)
(***************************************************************************)
C15_FailedProcessReleasesLock ==
  /\ \A t \in Threads :
       (ProcessEnded(t) /\ Threw(t, "process")) => (Snapshot = pre[t] /\ m_mutex = t)
  /\ \A t \in Threads : m_mutex = t => InBody(t)

\* after a process call failed, another call is inside its body, holding the mutex
C15_Witness ==
  /\ procFailed
  /\ \E u \in Threads : pc[u] \in LoadBody \cup ProcessBody /\ m_mutex = u

(***************************************************************************)
(* Vocabulary of the marshalling properties                                *)
(***************************************************************************)
NumericTypes == {"int", "float", "double", "bool"}
SupportedTypes == NumericTypes \cup {"string"}
HasUnsupported(p) == \E k \in DOMAIN p : p[k].type \notin SupportedTypes

\* the positions of process after its marshalling step
AfterMarshal == {"P_card", "P_resample", "P_forward", "P_decode"}

\* thread t is in a process call that got as far as marshalling
Marshalled(t) ==
  \/ pc[t] \in AfterMarshal
  \/ ProcessEnded(t) /\ ret[t].why \notin {"NotReady", "InvalidReader"}

\* the value v as a double, in halves
InHalves(v) == IF v.type \in {"float", "double"} THEN v.n ELSE 2 * v.n

(***************************************************************************)
(* C16: a parameter value whose type is none of int, float, double, bool,  *)
(* string makes marshalling report a failure to the caller: process does   *)
(* not go on past marshalling, no dictionary reaches forward, and the call *)
(* ends with a marshalling failure.                                        *)
(***************************************************************************)
C16_UnsupportedTypeReported ==
  \A t \in Threads :
    (Marshalled(t) /\ HasUnsupported(params[t])) =>
      /\ pc[t] \notin AfterMarshal
      /\ ~handed[t].called
      /\ ret[t].why = "Marshal"

(***************************************************************************)
(* C17: for every key whose value in params is a string s, the dictionary  *)
(* handed to forward maps that key to the string s, not to a tensor.       *)
(***************************************************************************)
C17_StringPassedThrough ==
  \A t \in Threads :
    handed[t].called =>
      \A k \in DOMAIN params[t] :
        params[t][k].type = "string" =>
          /\ k \in DOMAIN handed[t].dict
          /\ handed[t].dict[k] = StringValue(params[t][k].str)

(***************************************************************************)
(* C18: for every key whose value in params is an int, float, double or    *)
(* bool v, the dictionary handed to forward maps that key to a 1-element   *)
(* tensor holding v as a double (true is 1.0, false is 0.0).               *)
(***************************************************************************)
C18_NumericBecomesTensor ==
  \A t \in Threads :
    handed[t].called =>
      \A k \in DOMAIN params[t] :
        params[t][k].type \in NumericTypes =>
          /\ k \in DOMAIN handed[t].dict
          /\ handed[t].dict[k] = Tensor1(InHalves(params[t][k]))

(***************************************************************************)
(* C19: an empty parameter map is tolerated: marshalling does not fail on  *)
(* it and process goes on to resample and forward; and the dictionary      *)
(* handed to forward has exactly the keys of params.                       *)
(***************************************************************************)
C19_EmptyMapTolerated ==
  \A t \in Threads :
    /\ (Marshalled(t) /\ DOMAIN params[t] = {}) => ret[t].why # "Marshal"
    /\ handed[t].called => DOMAIN handed[t].dict = DOMAIN params[t]

(***************************************************************************)
(* C20: round trip of the codec: for any buffer B of C channels and N      *)
(* samples and any destination buffer B', to_buffer(to_tensor(B), B')      *)
(* leaves B' with C channels, N samples and B'[i][j] = B[i][j].            *)
(***************************************************************************)
C20_CodecRoundTrip ==
  codecAt = "done" =>
    /\ dest_buffer.nch = buffer.nch
    /\ dest_buffer.ns = buffer.ns
    /\ \A i \in 1..buffer.nch : \A j \in 1..buffer.ns :
         dest_buffer.data[i][j] = buffer.data[i][j]

(***************************************************************************)
(* C21..C28                                                                *)
(***************************************************************************)

(***************************************************************************)
(* C24: in a process call that came through AudioModification::process,    *)
(* the graph's entry points (resample, forward) are invoked only while the *)
(* loaded-flag is true and the graph reference is non-null, whatever loads *)
(* and other calls run beside it.                                          *)
(***************************************************************************)
C24_EntryPointsNeedLoadedGraph ==
  \A t \in Threads :
    (entry[t] = "am" /\ (used[t] # Unread \/ pc[t] \in {"P_forward", "P_decode"})) =>
      /\ m_loaded
      /\ m_model # Null
      /\ used[t] \in Graphs

\* a call that came through AudioModification::process is at the forward pass
\* on the graph that a load has installed
C24_Witness ==
  \E t \in Threads :
    entry[t] = "am" /\ pc[t] = "P_forward" /\ used[t] \in Graphs /\ loadSucceeded

(***************************************************************************)
(* C25: ready() is monotone: the loaded-flag starts false and no step of   *)
(* any load or process call, failed ones included, takes it from true to   *)
(* false.                                                                  *)
(***************************************************************************)
C25_ReadyMonotone ==
  [][/\ m_loaded => m_loaded'
     /\ (\A t \in Threads : pc[t] \notin LoadBody) => m_loaded' = m_loaded]_vars

\* a load has failed on a handle whose flag was true, and the flag is still true
C25_Witness ==
  \E t \in Threads : LoadFailed(t) /\ pre[t].loaded /\ m_loaded

(***************************************************************************)
(* C21: to_buffer called with a tensor that does not have exactly two      *)
(* dimensions signals the violation (it aborts or throws) and leaves the   *)
(* destination buffer as it was, in a build with assertions and in one     *)
(* without.                                                                *)
(***************************************************************************)
C21_WrongRankSignalled ==
  (codecAt \in {"true", "c10::Error", "abort"} /\ Rank(tensor) # 2) =>
    /\ codecAt \in {"c10::Error", "abort"}
    /\ dest_buffer = buffer

(***************************************************************************)
(* C22: the tensor a process call hands to resample has shape (1, N) for a *)
(* buffer of C channels and N samples, and its sample j is the arithmetic  *)
(* mean of the buffer's C channels at sample j.                            *)
(***************************************************************************)
DownmixOf(b) ==
  [shape |-> <<1, b.ns>>,
   data |-> [j \in 1..b.ns |->
               [k |-> "mean", v |-> SumTo([i \in 1..b.nch |-> b.data[i][j]], b.nch)]]]

C22_InputIsDownmix ==
  \A t \in Threads : input[t] # NoTensor => input[t] = DownmixOf(inbuf[t])

C26_FailureLeavesBuffer ==
  \A t \in Threads :
    (ProcessEnded(t) /\ ret[t].why \in {"Marshal", "Resample", "Forward"}) =>
      buf[t] = inbuf[t]

\* the forward pass has thrown on a stereo buffer, which is as it was
C26_Witness ==
  \E t \in Threads :
    /\ ProcessEnded(t) /\ ret[t].why = "Forward" /\ ret[t].result = "c10::Error"
    /\ inbuf[t].nch = 2
    /\ buf[t] = inbuf[t]

(***************************************************************************)
(* C28: from the moment a call of AudioModification::process hands its     *)
(* buffer to the model's process until that call has returned, whichever   *)
(* way, the buffer is the one the AudioModification owns: no other call on *)
(* the same AudioModification has replaced and freed it.                   *)
(***************************************************************************)
InModelCall(t) ==
  /\ entry[t] = "am"
  /\ \/ pc[t] \in {"P_lock"} \cup ProcessBody
     \/ pc[t] = "done" /\ ret[t].why \notin {"NotReady", "InvalidReader"}

C28_BufferLiveDuringModelCall ==
  \A t \in Threads : InModelCall(t) => mAudioBuffer = t

(***************************************************************************)
(* C27: load calls its synchronous observer (broadcastModelCardLoaded, the *)
(* editor's callback in the older revision) while it holds the mutex, so   *)
(* the observer finds the graph this load installed and no other call has  *)
(* run in between; a load whose observer returns can always take its next  *)
(* step, ends, and gives the mutex back; an observer that calls load or    *)
(* process on the same handle never gets the lock.  As stated, that        *)
(* observer blocks for ever: no load comes back from such a call.          *)
(***************************************************************************)
\* the steps of thread t inside load, and all its steps
LoadStep(t) ==
  \/ L_path(t) \/ L_jit(t) \/ L_loaded(t) \/ L_send(t) \/ L_attr(t)
  \/ L_name(t) \/ L_description(t) \/ L_author(t) \/ L_sampleRate(t)
  \/ L_tags(t) \/ L_broadcast(t) \/ L_callback(t) \/ L_ret(t)
Step(t) ==
  \/ \E a \in LoadArgs : CallLoad(t, a)
  \/ \E a \in ProcArgs : CallProcess(t, a, InBuf) \/ CallAMProcess(t, a)
  \/ L_lock(t) \/ LoadStep(t)
  \/ A_ready(t) \/ A_read(t) \/ P_lock(t) \/ P_input(t) \/ P_card(t)
  \/ P_resample(t) \/ P_forward(t, SmallOutputs) \/ P_decode(t)
  \/ Return(t)

Synchronous == {"card", "callback"}

\* the observer ran under the caller's lock and found what this load set
NotifiedUnderLock ==
  /\ lastEvent.via \in Synchronous => lastEvent.holder = lastEvent.by
  /\ \A t \in Threads :
       (fired[t] \cap Synchronous # {} /\ lastEvent.via \in Synchronous) =>
         /\ lastEvent.by = t
         /\ m_mutex = t
         /\ lastEvent.graph = arg[t] /\ lastEvent.loaded
         /\ m_model = arg[t] /\ m_loaded

\* a load that is not stuck in an observer's call goes on to its end, where
\* it gives the mutex back
LoadRunsToItsEnd ==
  \A t \in Threads :
    /\ pc[t] \in LoadBody \ {"L_relock"} => ENABLED LoadStep(t)
    /\ LoadEnded(t) => m_mutex = t /\ ENABLED Return(t)
    /\ pc[t] \in {"idle", "L_lock"} => m_mutex # t

====
